---- MODULE Spec2Model ----
(***************************************************************************)
(* Model of the abe-mvp request pipeline (api/ask.ts in its three          *)
(* variants): handler -> transcribeAudio -> generateLincolnResponse ->     *)
(* (generateAudio ->) generateVideo / generateVideoFromText.               *)
(*                                                                         *)
(* One request is processed per behaviour.  Every outbound fetch and the   *)
(* code that runs synchronously after its response is one action.          *)
(* Texts are sequences of one-character strings so that trim() and         *)
(* split(/\s+/) are computed, not assumed.                                 *)
(***************************************************************************)
EXTENDS Integers, Sequences, FiniteSets, TLC

VARIABLES
    variant,          \* which of the three handlers serves the request
    env,              \* process.env as seen by the invocation
    req,              \* the inbound request: method, password header, audio
    pc,               \* position of the handler
    responses,        \* HTTP responses sent through res, in order
    calls,            \* outbound fetches issued, per service
    stages,           \* adapters invoked, in order
    outcome,          \* per adapter: not run, returned, or threw (and what)
    transcription,    \* handler local
    lincolnResponse,  \* handler local
    audioUrl,         \* handler local (audio variant)
    attempt,          \* generateAudio loop counter
    waits,            \* backoff delays generateAudio slept, in ms, in order
                      \* (attempt, waits, lastErrorAudio and speechLog belong to
                      \* the activation of generateAudio and are gone once the
                      \* handler has moved on to generateVideo)
    lastErrorAudio,   \* generateAudio local lastError
    lastErrorVideo,   \* generateVideoFromText local lastError
    talkId,           \* id returned by the create-talk call
    attempts,         \* poll loop counter
    pollWaitMs,       \* total time slept in the poll loop, in ms
    fetched,          \* the latest upstream response received, and from where
    speechLog,        \* the speech service's responses, one per attempt
    pendingSeen,      \* number of status responses that were not terminal
    queriedIds,       \* the job ids status queries were issued for
    \* the browser client (src/App.tsx)
    ui,                   \* the component's React state, as last rendered
    mediaRecorderRef,     \* ref: the current MediaRecorder (0: null)
    recordingTimeoutRef,  \* ref: the id of the 4-second timer (0: null)
    recorders,            \* the MediaRecorders created, in order
    timers,               \* pending timeouts, with what their callback closed over
    starting,             \* startRecording calls awaiting getUserMedia
    inflight              \* /api/ask requests awaiting their response

serverVars == <<variant, env, req, pc, responses, calls, stages, outcome,
                transcription, lincolnResponse, audioUrl, attempt, waits,
                lastErrorAudio, lastErrorVideo, talkId, attempts, pollWaitMs,
                fetched, speechLog, pendingSeen, queriedIds>>

clientVars == <<ui, mediaRecorderRef, recordingTimeoutRef, recorders, timers,
                starting, inflight>>

vars == <<serverVars, clientVars>>

----------------------------------------------------------------------------
(* Bounds of the explored inputs *)

\* largest number of words in a generated completion text
MaxWords == 47

\* largest number of service credentials missing from the environment
MaxMissing == 1

(* Program constants *)

maxAttempts == 60
maxRetries == 3
WordLimit == 45
PollIntervalMs == 5000

Variants == {1, 2, 3}
TextVariants == {1, 3}

Undefined == "undefined"
Secret == "s3cret"
MockVideoUrl == "https://sample-videos.com/zip/10/mp4/SampleVideo_1280x720_1mb.mp4"
ResultUrl == "https://d-id.example/result_url.mp4"
ResultVideoUrl == "https://d-id.example/result.video_url.mp4"

Services == {"whisper", "gpt", "elevenlabs", "didCreate", "didStatus"}
Adapters == {"transcribeAudio", "generateLincolnResponse", "generateAudio",
             "generateVideo"}

----------------------------------------------------------------------------
(* Texts *)

Whitespace == {" ", "\n"}

RECURSIVE Words(_, _)
Words(n, sep) ==
    IF n = 0 THEN <<>>
    ELSE IF n = 1 THEN <<"w">>
    ELSE Words(n - 1, sep) \o sep \o <<"w">>

MkText(lead, n, sep, trail) == lead \o Words(n, sep) \o trail

Pads == {<<>>, <<" ">>, <<"\n", " ">>}
Seps == {<<" ">>, <<" ", "\n">>}
WordCounts == {0, 1, 11, 26} \cup (WordLimit..MaxWords)

\* texts an upstream service may put in a response
UpstreamTexts(counts) ==
    {MkText(l, n, s, t) : l \in Pads, n \in counts, s \in Seps, t \in Pads}

RECURSIVE trimStart(_)
trimStart(s) ==
    IF s # <<>> /\ Head(s) \in Whitespace THEN trimStart(Tail(s)) ELSE s

RECURSIVE trimEnd(_)
trimEnd(s) ==
    IF s # <<>> /\ s[Len(s)] \in Whitespace
    THEN trimEnd(SubSeq(s, 1, Len(s) - 1))
    ELSE s

\* String.prototype.trim
trim(s) == trimEnd(trimStart(s))

\* String.prototype.split(/\s+/).length: one piece more than there are
\* maximal whitespace runs (empty leading and trailing pieces included)
splitLength(s) ==
    Cardinality({i \in 1..Len(s) :
                    s[i] \in Whitespace /\ (i = 1 \/ s[i - 1] \notin Whitespace)})
    + 1

\* String.prototype.includes on a body given as a sequence of tokens
includes(body, token) == \E i \in 1..Len(body) : body[i] = token

----------------------------------------------------------------------------
(* Errors and HTTP responses *)

Err(msg, text) == [msg |-> msg, text |-> text]
NoError == Err("", <<>>)

NetworkError == Err("fetch failed", <<>>)

NotRun == [kind |-> "notRun"]
Ret(v) == [kind |-> "returned", value |-> v]
Continue == [kind |-> "continue"]
Threw(e) == [kind |-> "threw", err |-> e]

JsonError(status, message) ==
    [status |-> status, error |-> message, details |-> NoError,
     transcription |-> <<>>, response |-> <<>>, videoUrl |-> Undefined]

Json500(e) ==
    [status |-> 500, error |-> "Internal server error", details |-> e,
     transcription |-> <<>>, response |-> <<>>, videoUrl |-> Undefined]

Json200(t, r, v) ==
    [status |-> 200, error |-> "", details |-> NoError,
     transcription |-> t, response |-> r, videoUrl |-> v]

----------------------------------------------------------------------------
(* Upstream responses: what a fetch may resolve or reject with *)


WhisperResponses ==
    {[kind |-> "netfail", ok |-> FALSE, body |-> <<>>, text |-> <<>>]}
    \cup {[kind |-> "http", ok |-> FALSE, body |-> <<"whisper_error">>, text |-> <<>>]}
    \cup {[kind |-> "http", ok |-> TRUE, body |-> <<>>, text |-> t] :
            t \in UpstreamTexts({0, 2})}

\* choices[0]?.message?.content of a chat completion
NoContent == [tag |-> "undefined"]
Content(t) == [tag |-> "string", val |-> t]

GptResponses ==
    {[kind |-> "netfail", ok |-> FALSE, body |-> <<>>, choices |-> <<>>]}
    \cup {[kind |-> "http", ok |-> FALSE, body |-> <<"gpt_error">>,
           choices |-> <<>>]}
    \cup {[kind |-> "http", ok |-> TRUE, body |-> <<>>, choices |-> <<>>]}
    \cup {[kind |-> "http", ok |-> TRUE, body |-> <<>>,
           choices |-> <<NoContent>>]}
    \cup {[kind |-> "http", ok |-> TRUE, body |-> <<>>,
           choices |-> <<Content(t)>>] : t \in UpstreamTexts(WordCounts)}

AudioBytes == <<73, 68, 51>>

SpeechResponses ==
    {[kind |-> "netfail", ok |-> FALSE, status |-> 0, body |-> <<>>,
      audio |-> <<>>]}
    \cup {[kind |-> "http", ok |-> TRUE, status |-> 200, body |-> <<>>,
           audio |-> AudioBytes]}
    \cup {[kind |-> "http", ok |-> FALSE, status |-> 429,
           body |-> <<"quota_exceeded">>, audio |-> <<>>]}
    \cup {[kind |-> "http", ok |-> FALSE, status |-> 500,
           body |-> <<"detail", "system_busy">>, audio |-> <<>>]}
    \cup {[kind |-> "http", ok |-> FALSE, status |-> 500,
           body |-> <<"server_error">>, audio |-> <<>>]}

TalkIds == {"tlk_A", "tlk_B"}

CreateResponses ==
    {[kind |-> "netfail", ok |-> FALSE, body |-> <<>>, id |-> Undefined]}
    \cup {[kind |-> "http", ok |-> FALSE, body |-> <<"create_error">>,
           id |-> Undefined]}
    \cup {[kind |-> "http", ok |-> TRUE, body |-> <<>>, id |-> i] :
            i \in TalkIds}

NonTerminalStatuses == {"created", "started"}

StatusResponses ==
    {[kind |-> "netfail", ok |-> FALSE, body |-> <<>>, status |-> Undefined,
      result_url |-> Undefined, hasResult |-> FALSE, video_url |-> Undefined]}
    \cup {[kind |-> "http", ok |-> FALSE, body |-> <<"status_error">>,
           status |-> Undefined, result_url |-> Undefined,
           hasResult |-> FALSE, video_url |-> Undefined]}
    \cup {[kind |-> "http", ok |-> TRUE, body |-> <<>>, status |-> st,
           result_url |-> Undefined, hasResult |-> FALSE,
           video_url |-> Undefined] : st \in NonTerminalStatuses \cup {"error"}}
    \cup {[kind |-> "http", ok |-> TRUE, body |-> <<>>, status |-> "done",
           result_url |-> ru, hasResult |-> FALSE, video_url |-> Undefined] :
            ru \in {Undefined, ResultUrl}}
    \cup {[kind |-> "http", ok |-> TRUE, body |-> <<>>, status |-> "done",
           result_url |-> ru, hasResult |-> TRUE, video_url |-> vu] :
            ru \in {Undefined, ResultUrl},
            vu \in {Undefined, "", ResultVideoUrl}}

----------------------------------------------------------------------------
(* The request and the environment *)

\* JavaScript falsiness of a string-or-undefined value
Falsy(x) == x \in {Undefined, ""}

\* req.method, req.headers['x-access-password'], and req.body: absent
\* (undefined) or an object whose audio is absent, empty or a base64 string
Requests ==
    {q \in [method : {"POST", "GET"},
            password : {Undefined, "", Secret, "wrong"},
            hasBody : BOOLEAN,
            audio : {Undefined, "", "QUJD"}] :
        ~q.hasBody => q.audio = Undefined}

ApiKeys == {"OPENAI_API_KEY", "DID_API_KEY", "ELEVENLABS_API_KEY",
            "ELEVENLABS_VOICE_ID"}

\* process.env: the access secret, and which service credentials are set
Envs ==
    {e \in [ACCESS_PASSWORD : {Undefined, "", Secret},
            OPENAI_API_KEY : BOOLEAN,
            DID_API_KEY : BOOLEAN,
            ELEVENLABS_API_KEY : BOOLEAN,
            ELEVENLABS_VOICE_ID : BOOLEAN] :
        Cardinality({k \in ApiKeys : ~e[k]}) <= MaxMissing}

----------------------------------------------------------------------------
(* Buffer.from(bytes).toString('base64') for whole 3-byte groups *)

Base64Alphabet ==
    <<"A", "B", "C", "D", "E", "F", "G", "H", "I", "J", "K", "L", "M", "N",
      "O", "P", "Q", "R", "S", "T", "U", "V", "W", "X", "Y", "Z", "a", "b",
      "c", "d", "e", "f", "g", "h", "i", "j", "k", "l", "m", "n", "o", "p",
      "q", "r", "s", "t", "u", "v", "w", "x", "y", "z", "0", "1", "2", "3",
      "4", "5", "6", "7", "8", "9", "+", "/">>

RECURSIVE toBase64(_)
toBase64(bytes) ==
    IF Len(bytes) < 3 THEN <<>>
    ELSE LET b1 == bytes[1]
             b2 == bytes[2]
             b3 == bytes[3]
         IN <<Base64Alphabet[(b1 \div 4) + 1],
              Base64Alphabet[((b1 % 4) * 16 + (b2 \div 16)) + 1],
              Base64Alphabet[((b2 % 16) * 4 + (b3 \div 64)) + 1],
              Base64Alphabet[(b3 % 64) + 1]>>
            \o toBase64(SubSeq(bytes, 4, Len(bytes)))

----------------------------------------------------------------------------
(* The adapters, as functions of the upstream response *)

AuthorizedWhenUnset(password, e) ==
    \/ Falsy(e.ACCESS_PASSWORD)
    \/ (~Falsy(password) /\ password = e.ACCESS_PASSWORD)

AuthorizedNoPresenceCheck(password, e) ==
    password = e.ACCESS_PASSWORD

\* handler: the credential check
Authorized(password, e) ==
    ~Falsy(password) /\ password = e.ACCESS_PASSWORD

Respond(json) == [kind |-> "respond", json |-> json]
Pass == [kind |-> "pass"]

requestChecksCredentialFirst(q, e) ==
    IF ~Authorized(q.password, e)
    THEN Respond(JsonError(401, "Unauthorized - Invalid password"))
    ELSE IF q.method # "POST"
    THEN Respond(JsonError(405, "Method not allowed"))
    ELSE IF ~q.hasBody
    THEN Respond(Json500(Err("TypeError: Cannot destructure property 'audio'", <<>>)))
    ELSE IF Falsy(q.audio)
    THEN Respond(JsonError(400, "Audio data is required"))
    ELSE Pass

\* handler: what the code before the first adapter call answers, in its
\* order: method, credential, destructuring of req.body, audio
requestChecks(q, e) ==
    IF q.method # "POST"
    THEN Respond(JsonError(405, "Method not allowed"))
    ELSE IF ~Authorized(q.password, e)
    THEN Respond(JsonError(401, "Unauthorized - Invalid password"))
    ELSE IF ~q.hasBody
    THEN Respond(Json500(Err("TypeError: Cannot destructure property 'audio'", <<>>)))
    ELSE IF Falsy(q.audio)
    THEN Respond(JsonError(400, "Audio data is required"))
    ELSE Pass

configuredVideoUnchecked(adapter, e) ==
    IF adapter = "generateAudio"
    THEN e.ELEVENLABS_API_KEY /\ e.ELEVENLABS_VOICE_ID
    ELSE IF adapter = "generateVideo" THEN TRUE
    ELSE e.OPENAI_API_KEY

configuredKeyOnly(adapter, e) ==
    IF adapter = "generateAudio" THEN e.ELEVENLABS_API_KEY
    ELSE IF adapter = "generateVideo" THEN e.DID_API_KEY
    ELSE e.OPENAI_API_KEY

\* the credential test each adapter starts with
configured(adapter, e) ==
    IF adapter = "generateAudio"
    THEN e.ELEVENLABS_API_KEY /\ e.ELEVENLABS_VOICE_ID
    ELSE IF adapter = "generateVideo" THEN e.DID_API_KEY
    ELSE e.OPENAI_API_KEY

\* the error an adapter throws when that test fails
notConfigured(adapter) ==
    Err(IF adapter = "generateAudio"
        THEN "ElevenLabs API key or voice ID not configured"
        ELSE IF adapter = "generateVideo" THEN "D-ID API key not configured"
        ELSE "OpenAI API key not configured", <<>>)

stageAfterPersonaAlwaysVideo(v) == "generateVideo"

\* handler: the adapter called with lincolnResponse
stageAfterPersona(v) == IF v = 2 THEN "generateAudio" ELSE "generateVideo"

transcribeAudioUntrimmed(r) ==
    IF r.kind = "netfail" THEN Threw(NetworkError)
    ELSE IF ~r.ok THEN Threw(Err("Whisper API error: ", r.body))
    ELSE Ret(r.text)

\* transcribeAudio after its fetch
transcribeAudio(r) ==
    IF r.kind = "netfail" THEN Threw(NetworkError)
    ELSE IF ~r.ok THEN Threw(Err("Whisper API error: ", r.body))
    ELSE Ret(trim(r.text))

responseTextOfNoTrim(choices) ==
    IF choices = <<>> THEN NoContent
    ELSE IF choices[1].tag = "undefined" THEN NoContent
    ELSE Content(choices[1].val)

\* data.choices[0]?.message?.content?.trim()
responseTextOf(choices) ==
    IF choices = <<>> THEN NoContent
    ELSE IF choices[1].tag = "undefined" THEN NoContent
    ELSE Content(trim(choices[1].val))

wordCount(responseText) == splitLength(responseText)

\* the maximum the persona instruction of each variant states to the model
promptMaxWords(v) == IF v = 1 THEN 10 ELSE IF v = 2 THEN 45 ELSE 25

TooLongForFirstPrompt(n) == n > 10

TooLongOffByOne(n) == n > WordLimit + 1

TooLong(n) == n > WordLimit

\* generateLincolnResponse after its fetch
generateLincolnResponse(r) ==
    IF r.kind = "netfail" THEN Threw(NetworkError)
    ELSE IF ~r.ok THEN Threw(Err("GPT API error: ", r.body))
    ELSE LET responseText == responseTextOf(r.choices)
         IN IF responseText.tag = "undefined" \/ responseText.val = <<>>
            THEN Threw(Err("No response generated from GPT", <<>>))
            ELSE IF TooLong(wordCount(responseText.val))
                 THEN Threw(Err("Response too long: ",
                                <<ToString(wordCount(responseText.val)),
                                  "words (max 45)">>))
                 ELSE Ret(responseText.val)

RateLimited(r) == r.status = 429 \/ includes(r.body, "system_busy")

RECURSIVE pow(_, _)
pow(b, e) == IF e = 0 THEN 1 ELSE b * pow(b, e - 1)

BackoffDelayFromOne(n) == pow(2, n - 1) * 1000

\* Math.pow(2, attempt) * 1000
BackoffDelay(n) == pow(2, n) * 1000

generateAudioIterationNeverGivesUp(n, r) ==
    IF r.kind = "netfail"
    THEN [next |-> Continue, delay |-> 0, lastError |-> NetworkError]
    ELSE IF r.ok
    THEN [next |-> Ret(toBase64(r.audio)), delay |-> 0, lastError |-> NoError]
    ELSE IF RateLimited(r) /\ n < maxRetries
    THEN [next |-> Continue, delay |-> BackoffDelay(n),
          lastError |-> Err("ElevenLabs rate limited: ", r.body)]
    ELSE [next |-> Continue, delay |-> 0,
          lastError |-> Err("ElevenLabs API error: ", r.body)]

generateAudioIterationWaitsOnLast(n, r) ==
    IF r.kind = "netfail"
    THEN [next |-> IF n = maxRetries THEN Threw(NetworkError) ELSE Continue,
          delay |-> 0, lastError |-> NetworkError]
    ELSE IF r.ok
    THEN [next |-> Ret(toBase64(r.audio)), delay |-> 0, lastError |-> NoError]
    ELSE IF RateLimited(r)
    THEN [next |-> IF n = maxRetries
                   THEN Threw(Err("ElevenLabs rate limited: ", r.body))
                   ELSE Continue,
          delay |-> BackoffDelay(n),
          lastError |-> Err("ElevenLabs rate limited: ", r.body)]
    ELSE LET e == Err("ElevenLabs API error: ", r.body)
         IN [next |-> IF n = maxRetries THEN Threw(e) ELSE Continue,
             delay |-> 0, lastError |-> e]

\* one iteration of the generateAudio retry loop, on attempt n:
\* what the iteration ends with, the delay it sleeps, and lastError after it
generateAudioIteration(n, r) ==
    IF r.kind = "netfail"
    THEN [next |-> IF n = maxRetries THEN Threw(NetworkError) ELSE Continue,
          delay |-> 0, lastError |-> NetworkError]
    ELSE IF r.ok
    THEN [next |-> Ret(toBase64(r.audio)), delay |-> 0, lastError |-> NoError]
    ELSE IF RateLimited(r) /\ n < maxRetries
    THEN [next |-> Continue, delay |-> BackoffDelay(n),
          lastError |-> Err("ElevenLabs rate limited: ", r.body)]
    ELSE LET e == Err("ElevenLabs API error: ", r.body)
         IN [next |-> IF n = maxRetries THEN Threw(e) ELSE Continue,
             delay |-> 0, lastError |-> e]

\* reading the URL off a status response whose status is done
videoUrlOf(v, r) ==
    IF v = 3
    THEN LET videoUrl == IF ~Falsy(r.result_url) THEN r.result_url
                         ELSE IF r.hasResult THEN r.video_url
                         ELSE Undefined
         IN IF Falsy(videoUrl)
            THEN Threw(Err("D-ID video URL not found in response", <<>>))
            ELSE Ret(videoUrl)
    ELSE IF ~r.hasResult
         THEN Threw(Err("TypeError: Cannot read properties of undefined", <<>>))
         ELSE Ret(r.video_url)

\* one iteration of the poll loop, up to and excluding attempts++
pollIteration(v, r) ==
    IF r.kind = "netfail" THEN Threw(NetworkError)
    ELSE IF ~r.ok THEN Threw(Err("D-ID status API error: ", r.body))
    ELSE IF r.status = "done" THEN videoUrlOf(v, r)
    ELSE IF r.status = "error"
         THEN Threw(Err("D-ID video generation failed", <<>>))
         ELSE Continue

createTalkIgnoresStatus(v, r) ==
    IF r.kind = "netfail" THEN Threw(NetworkError) ELSE Continue

\* the create-talk call: a non-success answer ends the adapter (thrown in
\* generateVideo, recorded in lastError in generateVideoFromText)
createTalk(v, r) ==
    IF r.kind = "netfail" THEN Threw(NetworkError)
    ELSE IF ~r.ok
         THEN Threw(Err(IF v = 2 THEN "D-ID create API error: "
                        ELSE IF v = 1 THEN "D-ID Basic Auth failed: "
                        ELSE "Amazon Polly failed: ", r.body))
         ELSE Continue

sleptBeforeQueryNotFirst(slept, n) ==
    IF n = 0 THEN slept ELSE slept + PollIntervalMs

\* the wait that opens every iteration of the poll loop: the time slept so
\* far when the status query of iteration n (from 0) is issued
sleptBeforeQuery(slept, n) == slept + PollIntervalMs

TimedOut == Threw(Err("D-ID video generation timed out", <<>>))

\* the try/catch around create and poll in generateVideoFromText: what the
\* adapter ends with, given what the code inside the try ended with
afterTry(v, inner) ==
    IF v \in TextVariants /\ inner.kind = "threw"
    THEN Ret(MockVideoUrl)
    ELSE inner

----------------------------------------------------------------------------
(* The browser client's state *)

Null == "null"

\* the useState initial values; the password is already stored, and the
\* modal gone, when the mount effect found one in localStorage
AppState(stored) ==
    [isRecording |-> FALSE, isProcessing |-> FALSE, videoUrl |-> Null,
     error |-> Null, showPasswordModal |-> (stored = Null),
     storedPassword |-> stored, transcription |-> Null, response |-> Null]

\* the refs and the browser objects behind them, before any click
AppIdle ==
    /\ mediaRecorderRef = 0
    /\ recordingTimeoutRef = 0
    /\ recorders = <<>>
    /\ timers = {}
    /\ starting = <<>>
    /\ inflight = 0

----------------------------------------------------------------------------
(* Initial state: a request has arrived at one of the handlers *)

Init ==
    /\ ui = AppState(Null)
    /\ AppIdle
    /\ variant \in Variants
    /\ env \in Envs
    /\ req \in Requests
    /\ pc = "received"
    /\ responses = <<>>
    /\ calls = [s \in Services |-> 0]
    /\ stages = <<>>
    /\ outcome = [a \in Adapters |-> NotRun]
    /\ transcription = <<>>
    /\ lincolnResponse = <<>>
    /\ audioUrl = <<>>
    /\ attempt = 1
    /\ waits = <<>>
    /\ lastErrorAudio = NoError
    /\ lastErrorVideo = NoError
    /\ talkId = Undefined
    /\ attempts = 0
    /\ pollWaitMs = 0
    /\ fetched = [service |-> "none"]
    /\ speechLog = <<>>
    /\ pendingSeen = 0
    /\ queriedIds = {}

\* a fetch of the service that was answered by r
Fetch(service, r) ==
    /\ calls' = [calls EXCEPT ![service] = @ + 1]
    /\ fetched' = [service |-> service, resp |-> r]

NoFetch == UNCHANGED <<calls, fetched>>

Invoke(adapter, arg) == stages' = Append(stages, [name |-> adapter, arg |-> arg])

CatchWithoutResponse(e) ==
    /\ responses' = responses
    /\ pc' = "done"

\* the handler's catch block
Catch(e) ==
    /\ responses' = Append(responses, Json500(e))
    /\ pc' = "done"

speechVars == <<audioUrl, attempt, waits, lastErrorAudio, speechLog>>
videoVars == <<lastErrorVideo, talkId, attempts, pollWaitMs, pendingSeen,
               queriedIds>>

----------------------------------------------------------------------------
(* handler: method, credential and audio checks *)

Handler ==
    /\ pc = "received"
    /\ UNCHANGED clientVars
    /\ LET checked == requestChecks(req, env)
       IN IF checked.kind = "respond"
          THEN /\ responses' = Append(responses, checked.json)
               /\ pc' = "done"
          ELSE /\ responses' = responses
               /\ pc' = "transcribeAudio"
    /\ UNCHANGED <<variant, env, req, calls, fetched, stages, outcome,
                   transcription, lincolnResponse, speechVars, videoVars>>

(* Step 1: transcribeAudio(audio) *)

TranscribeAudio ==
    /\ pc = "transcribeAudio"
    /\ UNCHANGED clientVars
    /\ Invoke("transcribeAudio", req.audio)
    /\ \E r \in WhisperResponses :
        LET res == IF ~configured("transcribeAudio", env)
                   THEN Threw(notConfigured("transcribeAudio"))
                   ELSE transcribeAudio(r)
        IN /\ IF configured("transcribeAudio", env)
              THEN Fetch("whisper", r) ELSE NoFetch
           /\ outcome' = [outcome EXCEPT !["transcribeAudio"] = res]
           /\ IF res.kind = "returned"
              THEN /\ transcription' = res.value
                   /\ pc' = "generateLincolnResponse"
                   /\ responses' = responses
              ELSE /\ transcription' = transcription
                   /\ Catch(res.err)
    /\ UNCHANGED <<variant, env, req, lincolnResponse, speechVars, videoVars>>

(* Step 2: generateLincolnResponse(transcription) *)

GenerateLincolnResponse ==
    /\ pc = "generateLincolnResponse"
    /\ UNCHANGED clientVars
    /\ Invoke("generateLincolnResponse", transcription)
    /\ \E r \in GptResponses :
        LET res == IF ~configured("generateLincolnResponse", env)
                   THEN Threw(notConfigured("generateLincolnResponse"))
                   ELSE generateLincolnResponse(r)
        IN /\ IF configured("generateLincolnResponse", env)
              THEN Fetch("gpt", r) ELSE NoFetch
           /\ outcome' = [outcome EXCEPT !["generateLincolnResponse"] = res]
           /\ IF res.kind = "returned"
              THEN /\ lincolnResponse' = res.value
                   /\ pc' = stageAfterPersona(variant)
                   /\ responses' = responses
              ELSE /\ lincolnResponse' = lincolnResponse
                   /\ Catch(res.err)
    /\ UNCHANGED <<variant, env, req, transcription, speechVars, videoVars>>

(* Step 3 of the audio variant: generateAudio(lincolnResponse), one attempt
   of its retry loop per step *)

GenerateAudio ==
    /\ pc \in {"generateAudio", "generateAudioRetry"}
    /\ UNCHANGED clientVars
    /\ variant = 2
    /\ IF pc = "generateAudio"
       THEN Invoke("generateAudio", lincolnResponse)
       ELSE stages' = stages
    /\ IF ~configured("generateAudio", env)
       THEN /\ outcome' = [outcome EXCEPT !["generateAudio"] =
                    Threw(notConfigured("generateAudio"))]
            /\ Catch(notConfigured("generateAudio"))
            /\ NoFetch
            /\ UNCHANGED speechVars
       ELSE /\ attempt <= maxRetries
            /\ \E r \in SpeechResponses :
                LET it == generateAudioIteration(attempt, r)
                IN /\ Fetch("elevenlabs", r)
                   /\ speechLog' = Append(speechLog, r)
                   /\ lastErrorAudio' = IF it.lastError = NoError
                                        THEN lastErrorAudio ELSE it.lastError
                   /\ waits' = IF it.delay > 0 THEN Append(waits, it.delay)
                               ELSE waits
                   /\ IF it.next.kind = "continue"
                      THEN /\ attempt' = attempt + 1
                           /\ pc' = "generateAudioRetry"
                           /\ UNCHANGED <<outcome, audioUrl, responses>>
                      ELSE /\ attempt' = attempt
                           /\ outcome' = [outcome EXCEPT !["generateAudio"] = it.next]
                           /\ IF it.next.kind = "returned"
                              THEN /\ audioUrl' = it.next.value
                                   /\ pc' = "generateVideo"
                                   /\ responses' = responses
                              ELSE /\ audioUrl' = audioUrl
                                   /\ Catch(it.next.err)
    /\ UNCHANGED <<variant, env, req, transcription, lincolnResponse, videoVars>>

\* how generateVideo / generateVideoFromText ends, given how the code after
\* the credential check ended
VideoEnds(inner) ==
    LET res == afterTry(variant, inner)
    IN /\ lastErrorVideo' = IF variant \in TextVariants /\ inner.kind = "threw"
                            THEN inner.err ELSE lastErrorVideo
       /\ outcome' = [outcome EXCEPT !["generateVideo"] = res]
       /\ IF res.kind = "returned"
          THEN /\ responses' = Append(responses,
                      Json200(transcription, lincolnResponse, res.value))
               /\ pc' = "done"
          ELSE Catch(res.err)

(* Last step: generateVideoFromText(lincolnResponse) or generateVideo(audioUrl),
   up to the response of the create-talk call *)

CreateTalk ==
    /\ pc = "generateVideo"
    /\ UNCHANGED clientVars
    /\ Invoke("generateVideo", IF variant = 2 THEN audioUrl ELSE lincolnResponse)
    /\ IF ~configured("generateVideo", env)
       THEN /\ outcome' = [outcome EXCEPT !["generateVideo"] =
                    Threw(notConfigured("generateVideo"))]
            /\ Catch(notConfigured("generateVideo"))
            /\ NoFetch
            /\ UNCHANGED <<lastErrorVideo, talkId>>
       ELSE \E r \in CreateResponses :
             LET created == createTalk(variant, r)
             IN /\ Fetch("didCreate", r)
                /\ IF created.kind = "continue"
                   THEN /\ talkId' = r.id
                        /\ pc' = "pollTalk"
                        /\ UNCHANGED <<outcome, responses, lastErrorVideo>>
                   ELSE /\ talkId' = talkId
                        /\ VideoEnds(created)
    /\ attempt' = 1
    /\ waits' = <<>>
    /\ lastErrorAudio' = NoError
    /\ speechLog' = <<>>
    /\ UNCHANGED <<variant, env, req, transcription, lincolnResponse, audioUrl,
                   attempts, pollWaitMs, pendingSeen, queriedIds>>

(* One iteration of the poll loop: the 5 s wait, the status query, the
   handling of its response, and the loop test that follows attempts++ *)

PollTalk ==
    /\ pc = "pollTalk"
    /\ UNCHANGED clientVars
    /\ attempts < maxAttempts
    /\ pollWaitMs' = sleptBeforeQuery(pollWaitMs, attempts)
    /\ queriedIds' = queriedIds \cup {talkId}
    /\ \E r \in StatusResponses :
        LET it == pollIteration(variant, r)
        IN /\ Fetch("didStatus", r)
           /\ IF it.kind = "continue"
              THEN /\ attempts' = attempts + 1
                   /\ pendingSeen' = pendingSeen + 1
                   /\ IF attempts + 1 < maxAttempts
                      THEN /\ pc' = "pollTalk"
                           /\ UNCHANGED <<outcome, responses, lastErrorVideo>>
                      ELSE VideoEnds(TimedOut)
              ELSE /\ UNCHANGED <<attempts, pendingSeen>>
                   /\ VideoEnds(it)
    /\ UNCHANGED <<variant, env, req, stages, transcription, lincolnResponse,
                   speechVars, talkId>>

Next ==
    \/ Handler
    \/ TranscribeAudio
    \/ GenerateLincolnResponse
    \/ GenerateAudio
    \/ CreateTalk
    \/ PollTalk

Spec == Init /\ [][Next]_vars

----------------------------------------------------------------------------
(* The browser client: one action per event handler or callback of App.tsx. *)
(* A handler sees the state of the render it was created in: a click runs   *)
(* the handler of the latest render, a timer or promise callback runs the   *)
(* closure it was created with.                                             *)

\* largest number of recordings the user starts
MaxRecordings == 2

FourSeconds == 4000

\* what the user may have typed into the password field
PasswordInputs == {"", " ", "pw"}

\* what /api/ask answers, as processAudio tells the cases apart: a success
\* status with the three fields, another status, or a rejected fetch
AskOutcomes == {"ok", "notOk", "rejected"}

InitClient ==
    /\ ui \in {AppState(Null), AppState("stored")}
    /\ AppIdle
    /\ variant = 1
    /\ env \in {e \in Envs : e.ACCESS_PASSWORD = Secret
                             /\ \A k \in ApiKeys : e[k]}
    /\ req \in {q \in Requests : q.method = "POST" /\ q.password = Secret
                                  /\ q.audio = "QUJD"}
    /\ pc = "received"
    /\ responses = <<>>
    /\ calls = [s \in Services |-> 0]
    /\ stages = <<>>
    /\ outcome = [a \in Adapters |-> NotRun]
    /\ transcription = <<>>
    /\ lincolnResponse = <<>>
    /\ audioUrl = <<>>
    /\ attempt = 1
    /\ waits = <<>>
    /\ lastErrorAudio = NoError
    /\ lastErrorVideo = NoError
    /\ talkId = Undefined
    /\ attempts = 0
    /\ pollWaitMs = 0
    /\ fetched = [service |-> "none"]
    /\ speechLog = <<>>
    /\ pendingSeen = 0
    /\ queriedIds = {}

\* stopRecording, run by a closure whose isRecording is the given value, on
\* recorders rs and timers tm: what it leaves in the recorders, in
\* isRecording, in the timers and in recordingTimeoutRef. MediaRecorder.stop()
\* raises on a recorder that is not recording, which ends the handler before
\* it sets anything.
stopRecording(isRecording, rs, tm) ==
    IF mediaRecorderRef # 0 /\ isRecording
          /\ rs[mediaRecorderRef].state = "recording"
    THEN [recorders |-> [rs EXCEPT ![mediaRecorderRef] =
                            [@ EXCEPT !.state = "inactive", !.stopEvent = TRUE]],
          isRecording |-> FALSE,
          timers |-> {t \in tm : t.id # recordingTimeoutRef},
          recordingTimeoutRef |-> 0]
    ELSE [recorders |-> rs, isRecording |-> ui.isRecording, timers |-> tm,
          recordingTimeoutRef |-> recordingTimeoutRef]

\* the Continue button or Enter in the password modal
HandlePasswordSubmit ==
    /\ ui.showPasswordModal
    /\ \E password \in PasswordInputs :
          ui' = IF password \notin {"", " "}
                THEN [ui EXCEPT !.storedPassword = password,
                                !.showPasswordModal = FALSE]
                ELSE ui
    /\ UNCHANGED <<mediaRecorderRef, recordingTimeoutRef, recorders, timers,
                   starting, inflight>>
    /\ UNCHANGED serverVars

\* a click on the record button, which is rendered once the modal is gone and
\* is disabled while isProcessing: stopRecording when the render it belongs
\* to has isRecording, else startRecording up to its await of getUserMedia
HandleRecordClick ==
    /\ ~ui.showPasswordModal
    /\ ~ui.isProcessing
    /\ IF ui.isRecording
       THEN LET stopped == stopRecording(ui.isRecording, recorders, timers)
            IN /\ recorders' = stopped.recorders
               /\ ui' = [ui EXCEPT !.isRecording = stopped.isRecording]
               /\ timers' = stopped.timers
               /\ recordingTimeoutRef' = stopped.recordingTimeoutRef
               /\ UNCHANGED starting
       ELSE /\ Len(recorders) + Len(starting) < MaxRecordings
            /\ ui' = [ui EXCEPT !.error = Null, !.videoUrl = Null,
                                !.transcription = Null, !.response = Null]
            /\ starting' = Append(starting, [isRecording |-> ui.isRecording])
            /\ UNCHANGED <<recorders, timers, recordingTimeoutRef>>
    /\ UNCHANGED <<mediaRecorderRef, inflight>>
    /\ UNCHANGED serverVars

\* getUserMedia resolves: the rest of startRecording's try block. The timer's
\* callback calls the stopRecording of the render startRecording belongs to.
GetUserMediaResolves ==
    /\ starting # <<>>
    /\ LET closure == Head(starting)
           id == Len(recorders) + 1
       IN /\ recorders' = Append(recorders, [state |-> "recording",
                                             stopEvent |-> FALSE,
                                             timerFired |-> FALSE])
          /\ mediaRecorderRef' = id
          /\ ui' = [ui EXCEPT !.isRecording = TRUE]
          /\ timers' = timers \cup {[id |-> id, delay |-> FourSeconds,
                                     isRecording |-> closure.isRecording]}
          /\ recordingTimeoutRef' = id
    /\ starting' = Tail(starting)
    /\ UNCHANGED inflight
    /\ UNCHANGED serverVars

\* getUserMedia rejects: startRecording's catch block
GetUserMediaRejects ==
    /\ starting # <<>>
    /\ ui' = [ui EXCEPT !.error = "Failed to access microphone"]
    /\ starting' = Tail(starting)
    /\ UNCHANGED <<mediaRecorderRef, recordingTimeoutRef, recorders, timers,
                   inflight>>
    /\ UNCHANGED serverVars

\* a pending 4-second timer fires and runs its callback
TimerFires ==
    /\ \E t \in timers :
          LET stopped == stopRecording(t.isRecording,
                             [recorders EXCEPT ![t.id].timerFired = TRUE],
                             timers \ {t})
          IN /\ recorders' = stopped.recorders
             /\ ui' = [ui EXCEPT !.isRecording = stopped.isRecording]
             /\ timers' = stopped.timers
             /\ recordingTimeoutRef' = stopped.recordingTimeoutRef
    /\ UNCHANGED <<mediaRecorderRef, starting, inflight>>
    /\ UNCHANGED serverVars

\* a stopped recorder's stop event: onstop runs processAudio up to its fetch
OnStop ==
    /\ \E i \in 1..Len(recorders) :
          /\ recorders[i].stopEvent
          /\ recorders' = [recorders EXCEPT ![i].stopEvent = FALSE]
    /\ ui' = [ui EXCEPT !.isProcessing = TRUE, !.error = Null]
    /\ inflight' = inflight + 1
    /\ UNCHANGED <<mediaRecorderRef, recordingTimeoutRef, timers, starting>>
    /\ UNCHANGED serverVars

\* the fetch of /api/ask settles: the rest of processAudio
ProcessAudio ==
    /\ inflight > 0
    /\ \E answer \in AskOutcomes :
          ui' = IF answer = "ok"
                THEN [ui EXCEPT !.videoUrl = "videoUrl",
                                !.transcription = "transcription",
                                !.response = "response",
                                !.isProcessing = FALSE]
                ELSE [ui EXCEPT !.error = IF answer = "notOk"
                                           THEN "Internal server error"
                                           ELSE "Failed to fetch",
                                !.isProcessing = FALSE]
    /\ inflight' = inflight - 1
    /\ UNCHANGED <<mediaRecorderRef, recordingTimeoutRef, recorders, timers,
                   starting>>
    /\ UNCHANGED serverVars

NextClient ==
    \/ HandlePasswordSubmit
    \/ HandleRecordClick
    \/ GetUserMediaResolves
    \/ GetUserMediaRejects
    \/ TimerFires
    \/ OnStop
    \/ ProcessAudio

SpecClient == InitClient /\ [][NextClient]_vars

----------------------------------------------------------------------------
(* Vocabulary of the properties *)

Sent(status) == \E i \in 1..Len(responses) : responses[i].status = status

NoOutboundCall == \A s \in Services : calls[s] = 0

\* number of words of a text: the places where a run of non-whitespace starts
NumWords(s) ==
    Cardinality({i \in 1..Len(s) :
                    s[i] \notin Whitespace /\ (i = 1 \/ s[i - 1] \in Whitespace)})

\* the adapters of the variant, in pipeline order
StagesOf(v) ==
    IF v = 2
    THEN <<"transcribeAudio", "generateLincolnResponse", "generateAudio",
           "generateVideo">>
    ELSE <<"transcribeAudio", "generateLincolnResponse", "generateVideo">>

\* the latest upstream response is a status response reporting done
StatusDone ==
    /\ fetched.service = "didStatus"
    /\ fetched.resp.kind = "http"
    /\ fetched.resp.ok
    /\ fetched.resp.status = "done"

\* the URLs a done status response carries, in either supported shape
ReportedUrls ==
    IF StatusDone
    THEN {u \in {fetched.resp.result_url, fetched.resp.video_url} : ~Falsy(u)}
    ELSE {}

\* a speech response the retry policy treats as rate limiting
IsRateLimit(r) ==
    /\ r.kind = "http"
    /\ ~r.ok
    /\ (r.status = 429 \/ includes(r.body, "system_busy"))

\* a speech response that is a failure of another kind
IsOtherFailure(r) == r.kind = "http" /\ ~r.ok /\ ~IsRateLimit(r)

\* the video stage met a failure: it threw, or it recorded the error it caught
VideoStageFailed ==
    \/ outcome["generateVideo"].kind = "threw"
    \/ lastErrorVideo # NoError

----------------------------------------------------------------------------
(* C1: a POST whose x-access-password header is absent or differs from the
   configured access secret is answered 401 "Unauthorized - Invalid
   password", and for such a request no adapter is invoked and no outbound
   call is made, whatever the body holds. *)
C1_UnauthorizedIs401 ==
    (req.method = "POST"
        /\ (req.password = Undefined \/ req.password # env.ACCESS_PASSWORD))
    => /\ stages = <<>>
       /\ NoOutboundCall
       /\ pc \in {"received", "done"}
       /\ pc = "done" =>
            responses = <<JsonError(401, "Unauthorized - Invalid password")>>

C1_Witness ==
    /\ pc = "done"
    /\ req.method = "POST"
    /\ req.password = "wrong"
    /\ env.ACCESS_PASSWORD = Secret
    /\ req.hasBody
    /\ req.audio = "QUJD"
    /\ Len(responses) = 1
    /\ responses[1].status = 401

(* C2: a 200 response is sent only if every stage of the variant succeeded
   (the video job created and polled to status done), and its videoUrl is a
   URL the video service reported for the job. *)
C2_AllOrNothing ==
    \A i \in 1..Len(responses) :
        responses[i].status = 200 =>
            /\ \A k \in 1..Len(StagesOf(variant)) :
                   outcome[StagesOf(variant)[k]].kind = "returned"
            /\ ~VideoStageFailed
            /\ StatusDone
            /\ responses[i].videoUrl \in ReportedUrls

(* C3: once the request has passed the method, credential and audio checks,
   a failure in any stage yields exactly one response, 500 "Internal server
   error" with the failing stage's error message as details. *)
C3_FailureIs500 ==
    pc = "done" =>
        /\ \A a \in Adapters :
               outcome[a].kind = "threw" => responses = <<Json500(outcome[a].err)>>
        /\ lastErrorVideo # NoError => responses = <<Json500(lastErrorVideo)>>

(* C4: when 60 consecutive status queries report a status that is neither
   done nor error, the video adapter fails with 'D-ID video generation timed
   out', and it never issues a 61st query. *)
C4_TimeoutAfter60 ==
    /\ calls["didStatus"] <= maxAttempts
    /\ pendingSeen = maxAttempts =>
            /\ calls["didStatus"] = maxAttempts
            /\ outcome["generateVideo"] = TimedOut

(* C5: when the k-th status query is the first to report done and it carries
   the result URL under result.video_url or under result_url, the adapter
   has made exactly k queries and returns that URL. *)
C5_DoneReturnsUrl ==
    (StatusDone /\ ReportedUrls # {}) =>
        /\ calls["didStatus"] = pendingSeen + 1
        /\ outcome["generateVideo"].kind = "returned"
        /\ outcome["generateVideo"].value \in ReportedUrls

(* C6: when a status query reports done with neither result.video_url nor
   result_url, the adapter fails with an error and no 200 is sent. *)
C6_DoneWithoutUrlFails ==
    (StatusDone /\ ReportedUrls = {}) =>
        /\ outcome["generateVideo"].kind = "threw"
        /\ ~Sent(200)

(* C7: in generateAudio, when the first k-1 attempts (k in 1..3) are rate
   limited and the k-th succeeds, the adapter returns the audio after exactly
   k attempts, having waited 2 s after the first rate-limited attempt and 4 s
   after the second, and no other wait. *)
C7_RetryThenSuccess ==
    \A k \in 1..maxRetries :
        (/\ Len(speechLog) >= k
         /\ \A i \in 1..(k - 1) : IsRateLimit(speechLog[i])
         /\ speechLog[k].kind = "http"
         /\ speechLog[k].ok)
        => /\ Len(speechLog) = k
           /\ calls["elevenlabs"] = k
           /\ outcome["generateAudio"] = Ret(toBase64(speechLog[k].audio))
           /\ audioUrl = toBase64(speechLog[k].audio)
           /\ waits = SubSeq(<<2000, 4000>>, 1, k - 1)

C7_Witness ==
    /\ Len(speechLog) = 3
    /\ speechLog[1].status = 429
    /\ includes(speechLog[2].body, "system_busy")
    /\ speechLog[3].ok
    /\ outcome["generateAudio"].kind = "returned"
    /\ waits = <<2000, 4000>>

(* C8: in generateAudio, after a non-success response that is neither HTTP
   429 nor a 'system_busy' body, no further attempt is made: such a response
   is the last one and the adapter has failed. *)
C8_OtherFailureIsFinal ==
    \A i \in 1..Len(speechLog) :
        IsOtherFailure(speechLog[i]) =>
            /\ i = Len(speechLog)
            /\ pc = "done"
            /\ outcome["generateAudio"].kind = "threw"

(* C9: in generateAudio, when all 3 attempts are rate limited, the adapter
   fails with the error 'ElevenLabs rate limited: ' carrying the text of the
   last response. *)
C9_RateLimitErrorKind ==
    (/\ Len(speechLog) = maxRetries
     /\ \A i \in 1..maxRetries : IsRateLimit(speechLog[i]))
    => outcome["generateAudio"] =
            Threw(Err("ElevenLabs rate limited: ", speechLog[maxRetries].body))

(* C10: generateLincolnResponse returns the trimmed completion text,
   unchanged, when it has at most 45 words, and fails with 'Response too
   long' when it has 46 or more; the response field of a 200 result has at
   most 45 words. *)
C10_WordCap ==
    /\ (/\ fetched.service = "gpt"
        /\ fetched.resp.kind = "http"
        /\ fetched.resp.ok
        /\ fetched.resp.choices # <<>>
        /\ fetched.resp.choices[1].tag = "string"
        /\ NumWords(fetched.resp.choices[1].val) >= 1)
       => LET text == fetched.resp.choices[1].val
              res == outcome["generateLincolnResponse"]
          IN IF NumWords(text) <= 45
             THEN /\ res = Ret(trim(text))
                  /\ lincolnResponse = trim(text)
                  /\ NumWords(lincolnResponse) = NumWords(text)
                  /\ Len(lincolnResponse) > 0
                  /\ lincolnResponse[1] \notin Whitespace
                  /\ lincolnResponse[Len(lincolnResponse)] \notin Whitespace
             ELSE /\ res.kind = "threw"
                  /\ res.err.msg = "Response too long: "
                  /\ lincolnResponse = <<>>
    /\ \A i \in 1..Len(responses) :
          responses[i].status = 200 =>
              /\ NumWords(responses[i].response) <= 45
              /\ responses[i].response = lincolnResponse

C10_Witness ==
    /\ fetched.service = "gpt"
    /\ fetched.resp.ok
    /\ fetched.resp.choices # <<>>
    /\ fetched.resp.choices[1].tag = "string"
    /\ NumWords(fetched.resp.choices[1].val) = 45
    /\ fetched.resp.choices[1].val[1] \in Whitespace
    /\ outcome["generateLincolnResponse"].kind = "returned"

\* ---------------------------------------------------------------------------
\* C11: a request whose audio payload is missing or empty is answered
\* 400 {error: "Audio data is required"} and no network call is made. The
\* requests meant are those that reach the audio check (POST with a matching
\* credential); the payload is missing when the body has no audio field and
\* when there is no body at all.
C11_EmptyAudioIs400 ==
    (/\ req.method = "POST"
     /\ Authorized(req.password, env)
     /\ (~req.hasBody \/ Falsy(req.audio)))
    => /\ NoOutboundCall
       /\ stages = <<>>
       /\ pc = "done" => responses = <<JsonError(400, "Audio data is required")>>

\* ---------------------------------------------------------------------------
\* C12: the adapters are invoked in the fixed order transcription, persona,
\* speech (audio variant only), video; a stage is started only after the
\* previous one returned, and with that result as its input; once a stage has
\* failed the request is over: no later stage was invoked and no call of a
\* later stage's service was made.
ServicesOf(adapter) ==
    IF adapter = "transcribeAudio" THEN {"whisper"}
    ELSE IF adapter = "generateLincolnResponse" THEN {"gpt"}
    ELSE IF adapter = "generateAudio" THEN {"elevenlabs"}
    ELSE {"didCreate", "didStatus"}

C12_FixedOrder ==
    /\ Len(stages) <= Len(StagesOf(variant))
    /\ \A i \in 1..Len(stages) :
          /\ stages[i].name = StagesOf(variant)[i]
          /\ i = 1 => stages[i].arg = req.audio
          /\ i > 1 => /\ outcome[stages[i - 1].name].kind = "returned"
                      /\ stages[i].arg = outcome[stages[i - 1].name].value
    /\ \A a \in Adapters :
          /\ outcome[a].kind # "notRun"
                => \E i \in 1..Len(stages) : stages[i].name = a
          /\ outcome[a].kind = "threw"
                => /\ pc = "done"
                   /\ stages[Len(stages)].name = a
    /\ \A i \in 1..Len(StagesOf(variant)) :
          i > Len(stages) =>
              \A s \in ServicesOf(StagesOf(variant)[i]) : calls[s] = 0
    /\ variant # 2 => calls["elevenlabs"] = 0

\* the audio variant ran all four stages, each on the previous one's result
C12_Witness ==
    /\ variant = 2
    /\ pc = "done"
    /\ Len(stages) = 4
    /\ outcome["generateVideo"].kind = "returned"

\* a stage failed in the middle of the pipeline and nothing followed it
C12_WitnessFailure ==
    /\ variant = 2
    /\ pc = "done"
    /\ outcome["generateAudio"].kind = "threw"
    /\ calls["elevenlabs"] > 0
    /\ Len(stages) = 3

\* ---------------------------------------------------------------------------
\* C13: a request that passed the checks and whose every upstream call
\* succeeded (the transcription returned text, the completion was valid, the
\* one speech call succeeded, the job was created and a status query reported
\* done with a URL in either supported shape) is answered 200 with
\* transcription, response and videoUrl present and non-empty, every stage
\* having run exactly once.
C13_EndToEndSuccess ==
    (/\ pc = "done"
     /\ StatusDone
     /\ ReportedUrls # {}
     /\ transcription # <<>>
     /\ calls["elevenlabs"] <= 1)
    => /\ Len(responses) = 1
       /\ responses[1].status = 200
       /\ responses[1].transcription # <<>>
       /\ responses[1].response # <<>>
       /\ ~Falsy(responses[1].videoUrl)
       /\ [i \in 1..Len(stages) |-> stages[i].name] = StagesOf(variant)
       /\ calls["whisper"] = 1
       /\ calls["gpt"] = 1
       /\ calls["didCreate"] = 1
       /\ calls["elevenlabs"] = IF variant = 2 THEN 1 ELSE 0

\* ---------------------------------------------------------------------------
\* Adapters called on their own: besides the requests of Init, each adapter
\* is entered directly, as a caller other than the handler would, in an
\* environment that lacks the credential it needs.
AdapterInputs == {MkText(<<>>, 2, <<" ">>, <<>>)}

InitAdapters ==
    \/ Init
    \/ /\ variant \in Variants
       /\ env \in Envs
       /\ req \in {q \in Requests : q.method = "POST" /\ q.password = Secret
                                     /\ q.audio = "QUJD"}
       /\ ui = AppState(Null)
       /\ AppIdle
       /\ pc \in Adapters
       /\ pc = "generateAudio" => variant = 2
       /\ ~configured(pc, env)
       /\ transcription \in AdapterInputs
       /\ lincolnResponse \in AdapterInputs
       /\ audioUrl = toBase64(AudioBytes)
       /\ responses = <<>>
       /\ calls = [s \in Services |-> 0]
       /\ stages = <<>>
       /\ outcome = [a \in Adapters |-> NotRun]
       /\ attempt = 1
       /\ waits = <<>>
       /\ lastErrorAudio = NoError
       /\ lastErrorVideo = NoError
       /\ talkId = Undefined
       /\ attempts = 0
       /\ pollWaitMs = 0
       /\ fetched = [service |-> "none"]
       /\ speechLog = <<>>
       /\ pendingSeen = 0
       /\ queriedIds = {}

SpecAdapters == InitAdapters /\ [][Next]_vars

\* the adapter has been invoked
Invoked(a) == \E i \in 1..Len(stages) : stages[i].name = a

\* the environment holds what the adapter needs: the OpenAI key for
\* transcription and persona, key and voice id for speech, the D-ID key for
\* video
CredentialPresent(a) ==
    CASE a \in {"transcribeAudio", "generateLincolnResponse"} -> env.OPENAI_API_KEY
      [] a = "generateAudio" -> env.ELEVENLABS_API_KEY /\ env.ELEVENLABS_VOICE_ID
      [] a = "generateVideo" -> env.DID_API_KEY

ConfigurationErrors ==
    {"OpenAI API key not configured",
     "ElevenLabs API key or voice ID not configured",
     "D-ID API key not configured"}

\* C14: an adapter invoked while its credential (for speech: key or voice id)
\* is absent fails with a configuration error and has issued no network call.
C14_ConfigErrorBeforeCall ==
    \A a \in Adapters :
        (Invoked(a) /\ ~CredentialPresent(a))
        => /\ outcome[a].kind = "threw"
           /\ outcome[a].err.msg \in ConfigurationErrors
           /\ \A s \in ServicesOf(a) : calls[s] = 0
           /\ pc = "done"
           /\ responses = <<Json500(outcome[a].err)>>

\* speech invoked with the key present and the voice id absent
C14_Witness ==
    /\ Invoked("generateAudio")
    /\ env.ELEVENLABS_API_KEY
    /\ ~env.ELEVENLABS_VOICE_ID
    /\ outcome["generateAudio"].kind = "threw"

\* the persona adapter invoked without the OpenAI key
C14_WitnessPersona ==
    /\ Invoked("generateLincolnResponse")
    /\ ~env.OPENAI_API_KEY
    /\ outcome["generateLincolnResponse"].kind = "threw"

\* ---------------------------------------------------------------------------
\* C15: the transcript handed to the persona stage is non-empty after
\* trimming: the persona stage is never started with an empty transcript.
C15_TranscriptNonEmpty ==
    \A i \in 1..Len(stages) :
        stages[i].name = "generateLincolnResponse" => NumWords(stages[i].arg) > 0

\* ---------------------------------------------------------------------------
\* C16: when the completion has no first choice, no content, or content that
\* is empty or whitespace only, generateLincolnResponse fails with the
\* empty-generation error; hence the text passed to the speech stage or (text
\* variants) to the video stage is non-empty and has no leading or trailing
\* whitespace.
EmptyGeneration(r) ==
    /\ r.kind = "http"
    /\ r.ok
    /\ \/ r.choices = <<>>
       \/ r.choices[1].tag = "undefined"
       \/ (r.choices[1].tag = "string" /\ NumWords(r.choices[1].val) = 0)

NonEmptyTrimmed(t) ==
    /\ t # <<>>
    /\ t[1] \notin Whitespace
    /\ t[Len(t)] \notin Whitespace

C16_EmptyGenerationFails ==
    /\ (fetched.service = "gpt" /\ EmptyGeneration(fetched.resp))
       => /\ outcome["generateLincolnResponse"]
                = Threw(Err("No response generated from GPT", <<>>))
          /\ pc = "done"
          /\ responses = <<Json500(Err("No response generated from GPT", <<>>))>>
    /\ \A i \in 1..Len(stages) :
          (\/ stages[i].name = "generateAudio"
           \/ (stages[i].name = "generateVideo" /\ variant \in TextVariants))
          => NonEmptyTrimmed(stages[i].arg)

\* the completion's content was whitespace only, and the stage failed
C16_Witness ==
    /\ fetched.service = "gpt"
    /\ fetched.resp.kind = "http"
    /\ fetched.resp.ok
    /\ fetched.resp.choices # <<>>
    /\ fetched.resp.choices[1].tag = "string"
    /\ fetched.resp.choices[1].val # <<>>
    /\ NumWords(fetched.resp.choices[1].val) = 0
    /\ outcome["generateLincolnResponse"].kind = "threw"

\* ---------------------------------------------------------------------------
\* C17: transcribeAudio returns the upstream text with its leading and
\* trailing whitespace removed and its interior unchanged; that value is the
\* one the persona stage receives and the one a 200 carries as transcription.
IsTrimOf(t, raw) ==
    \E a \in 0..Len(raw) : \E b \in 0..(Len(raw) - a) :
        /\ \A i \in 1..a : raw[i] \in Whitespace
        /\ \A i \in (Len(raw) - b + 1)..Len(raw) : raw[i] \in Whitespace
        /\ t = SubSeq(raw, a + 1, Len(raw) - b)
        /\ t = <<>> \/ (t[1] \notin Whitespace /\ t[Len(t)] \notin Whitespace)

C17_TranscriptIsTrimmedText ==
    /\ (fetched.service = "whisper" /\ fetched.resp.kind = "http" /\ fetched.resp.ok)
       => /\ outcome["transcribeAudio"].kind = "returned"
          /\ IsTrimOf(outcome["transcribeAudio"].value, fetched.resp.text)
    /\ \A i \in 1..Len(stages) :
          stages[i].name = "generateLincolnResponse"
          => /\ outcome["transcribeAudio"].kind = "returned"
             /\ stages[i].arg = outcome["transcribeAudio"].value
    /\ \A i \in 1..Len(responses) :
          responses[i].status = 200
          => /\ outcome["transcribeAudio"].kind = "returned"
             /\ responses[i].transcription = outcome["transcribeAudio"].value

\* the upstream text had whitespace on both sides and a two-character
\* separator inside; the adapter returned
C17_Witness ==
    /\ fetched.service = "whisper"
    /\ fetched.resp.kind = "http"
    /\ fetched.resp.ok
    /\ Len(fetched.resp.text) >= 6
    /\ fetched.resp.text[1] \in Whitespace
    /\ fetched.resp.text[Len(fetched.resp.text)] \in Whitespace
    /\ outcome["transcribeAudio"].kind = "returned"
    /\ Len(outcome["transcribeAudio"].value) = 4

\* ---------------------------------------------------------------------------
\* C19: a request whose method is not POST is answered 405 whatever its
\* credential and body are, and no adapter is invoked for it; the checks come
\* in the order method, credential, audio, so a request failing several of
\* them gets the answer of the first one it fails.
CredentialMatches ==
    /\ req.password \notin {Undefined, ""}
    /\ req.password = env.ACCESS_PASSWORD

C19_MethodFirst ==
    /\ (\/ req.method # "POST"
        \/ ~CredentialMatches
        \/ (req.hasBody /\ req.audio \in {Undefined, ""}))
       => stages = <<>> /\ NoOutboundCall
    /\ pc = "done"
       => /\ req.method # "POST"
             => responses = <<JsonError(405, "Method not allowed")>>
          /\ (req.method = "POST" /\ ~CredentialMatches)
             => responses = <<JsonError(401, "Unauthorized - Invalid password")>>
          /\ (/\ req.method = "POST"
              /\ CredentialMatches
              /\ req.hasBody
              /\ req.audio \in {Undefined, ""})
             => responses = <<JsonError(400, "Audio data is required")>>

\* a request failing all three checks was answered 405
C19_Witness ==
    /\ req.method # "POST"
    /\ ~CredentialMatches
    /\ req.hasBody
    /\ req.audio = ""
    /\ pc = "done"
    /\ Sent(405)

\* ---------------------------------------------------------------------------
\* C20: a video job goes pending -> done | error and both are terminal: after
\* a status query that reported done or error or came back with a non-success
\* HTTP status no further status query is made, and a job reported error (or
\* a non-success status response) makes the adapter fail rather than return a
\* URL.
StatusTerminal ==
    /\ fetched.service = "didStatus"
    /\ fetched.resp.kind = "http"
    /\ \/ ~fetched.resp.ok
       \/ fetched.resp.status \in {"done", "error"}

StatusFailed ==
    /\ fetched.service = "didStatus"
    /\ fetched.resp.kind = "http"
    /\ \/ ~fetched.resp.ok
       \/ fetched.resp.status = "error"

C20_TerminalStatus ==
    /\ StatusTerminal => pc = "done"
    /\ StatusFailed => outcome["generateVideo"].kind = "threw"

\* the half of C20 that holds in every variant: the query that reported a
\* terminal status was the last one
C20_NoQueryAfterTerminal == [][StatusTerminal => UNCHANGED calls]_vars

\* ---------------------------------------------------------------------------
\* C18: recording has a 4-second limit: when a recording was started and the
\* user did not stop it, the firing of its 4-second timer stops the
\* MediaRecorder and sets isRecording to false, so no recording is still
\* active after its timer has fired.
C18_FourSecondLimit ==
    \A i \in 1..Len(recorders) :
        recorders[i].timerFired
        => /\ recorders[i].state = "inactive"
           /\ mediaRecorderRef = i => ~ui.isRecording

\* ---------------------------------------------------------------------------
\* the pipeline was started for the request
Processed == stages # <<>>

\* C21 as stated: a request processed while a credential its variant needs
\* is absent fails with a configuration error and no outbound call is made at
\* any point of the request.
C21_NoCallWhenCredentialMissing ==
    (/\ Processed
     /\ \E i \in 1..Len(StagesOf(variant)) :
            ~CredentialPresent(StagesOf(variant)[i]))
    => /\ NoOutboundCall
       /\ pc = "done"
          => /\ Len(responses) = 1
             /\ responses[1].status = 500
             /\ responses[1].details.msg \in ConfigurationErrors

\* C21 amended: a request processed while a credential its variant needs is
\* absent never gets a 200 and ends in a 500; the first adapter whose
\* credential is absent fails with a configuration error when it is reached,
\* and neither it nor a later adapter makes a call. The adapters before it
\* have made theirs.
C21_FailsAtUnconfiguredAdapter ==
    \A i \in 1..Len(StagesOf(variant)) :
        ~CredentialPresent(StagesOf(variant)[i])
        => /\ \A j \in i..Len(StagesOf(variant)) :
                 \A s \in ServicesOf(StagesOf(variant)[j]) : calls[s] = 0
           /\ ~Sent(200)
           /\ (Processed /\ pc = "done")
              => Len(responses) = 1 /\ responses[1].status = 500
           /\ Invoked(StagesOf(variant)[i])
              => /\ outcome[StagesOf(variant)[i]].kind = "threw"
                 /\ outcome[StagesOf(variant)[i]].err.msg \in ConfigurationErrors
                 /\ responses = <<Json500(outcome[StagesOf(variant)[i]].err)>>

\* the D-ID key is absent: the configuration error came after the
\* transcription and completion calls
C21_Witness ==
    /\ ~env.DID_API_KEY
    /\ pc = "done"
    /\ calls["whisper"] = 1
    /\ calls["gpt"] = 1
    /\ outcome["generateVideo"].kind = "threw"
    /\ outcome["generateVideo"].err.msg = "D-ID API key not configured"
    /\ Sent(500)

\* ---------------------------------------------------------------------------
\* C22: whatever the speech service answers, generateAudio makes at most 3
\* calls; it waits only after a rate-limited attempt n < 3, for 2^n seconds
\* (2 s, 4 s), so never after the third attempt and never 8 s; a success ends
\* the loop with no further call.

\* the waits the attempts logged so far call for
ExpectedWaits ==
    LET after(n) == IF n <= Len(speechLog) /\ IsRateLimit(speechLog[n])
                    THEN <<(2 ^ n) * 1000>> ELSE <<>>
    IN after(1) \o after(2)

CreateSucceeded ==
    /\ fetched.service = "didCreate"
    /\ fetched.resp.kind = "http"
    /\ fetched.resp.ok

C23_OneCreateCall ==
    /\ calls["didCreate"] <= 1
    /\ Invoked("generateVideo") /\ CredentialPresent("generateVideo")
       => calls["didCreate"] = 1
    /\ CreateSucceeded => talkId = fetched.resp.id
    /\ (fetched.service = "didCreate" /\ ~CreateSucceeded)
       => /\ calls["didStatus"] = 0
          /\ queriedIds = {}
          /\ pc = "done"
    /\ talkId # Undefined => calls["didCreate"] = 1 /\ talkId \in TalkIds
    /\ calls["didStatus"] = 0 => queriedIds = {}
    /\ calls["didStatus"] > 0
       => /\ calls["didCreate"] = 1
          /\ talkId \in TalkIds
          /\ queriedIds = {talkId}

\* several status queries, all for the one job that was created
C23_Witness ==
    /\ calls["didCreate"] = 1
    /\ calls["didStatus"] >= 3
    /\ talkId = "tlk_B"
    /\ queriedIds = {"tlk_B"}

\* a create call that failed ended the adapter without a status query
C23_WitnessCreateFailed ==
    /\ fetched.service = "didCreate"
    /\ fetched.resp.kind = "http"
    /\ ~fetched.resp.ok
    /\ pc = "done"
    /\ calls["didStatus"] = 0

\* ---------------------------------------------------------------------------
\* C24: every status query, the first one included, is preceded by exactly
\* one 5-second wait: after n status queries the adapter has waited 5 * n
\* seconds, and never more than 300 seconds in all.
C24_FiveSecondsPerQuery ==
    /\ pollWaitMs = 5000 * calls["didStatus"]
    /\ pollWaitMs <= 300 * 1000
    /\ calls["didStatus"] <= 60

\* the sixtieth query has been made, after 300 seconds of waiting
C24_Witness ==
    /\ calls["didStatus"] = 60
    /\ pollWaitMs = 300000
    /\ pc = "done"

\* ---------------------------------------------------------------------------
\* C25: the two text variants (first and third handler) answer alike: for
\* the same request and the same upstream responses both send the same
\* status, transcription, response and videoUrl. Up to the video stage the two
\* handlers take the same steps on the same responses, and in the video stage
\* both continue on the same status responses, so the two answers are
\* compared on the upstream response that ended the run.

\* what the video adapter of text variant v makes of the latest response
VideoStepOf(v) ==
    IF fetched.service = "didCreate"
    THEN createTalk(v, fetched.resp)
    ELSE LET it == pollIteration(v, fetched.resp)
         IN IF it.kind = "continue" /\ attempts >= maxAttempts
            THEN TimedOut ELSE it

\* the response the handler of text variant v sends for it
TextAnswerOf(v) ==
    LET res == afterTry(v, VideoStepOf(v))
    IN IF res.kind = "returned"
       THEN Json200(transcription, lincolnResponse, res.value)
       ELSE Json500(res.err)

C25_TextVariantsEquivalent ==
    (/\ variant \in TextVariants
     /\ pc = "done"
     /\ fetched.service \in {"didCreate", "didStatus"})
    => /\ responses = <<TextAnswerOf(variant)>>
       /\ TextAnswerOf(1) = TextAnswerOf(3)

\* ---------------------------------------------------------------------------
\* C26 as stated: the cap enforced on the persona reply is the maximum the
\* variant's persona instruction states (10, 45, 25 words): no 200 response
\* of a variant carries a reply with more words than that.
C26_CapIsPromptMaximum ==
    \A i \in 1..Len(responses) :
        responses[i].status = 200
        => NumWords(responses[i].response) <= promptMaxWords(variant)

\* C26 amended: in every variant the cap enforced is 45 words, whatever the
\* persona instruction states: no 200 response carries a reply of more than
\* 45 words, and a reply is refused as too long only when it has more than
\* 45, so the first and third variants let through replies longer than the
\* 10 and 25 words their instructions state.
C26_CapIs45InEveryVariant ==
    /\ \A i \in 1..Len(responses) :
          responses[i].status = 200 => NumWords(responses[i].response) <= 45
    /\ (/\ outcome["generateLincolnResponse"].kind = "threw"
        /\ outcome["generateLincolnResponse"].err.msg = "Response too long: ")
       => /\ fetched.service = "gpt"
          /\ NumWords(fetched.resp.choices[1].val) > 45
    /\ (/\ fetched.service = "gpt"
        /\ fetched.resp.kind = "http"
        /\ fetched.resp.ok
        /\ fetched.resp.choices # <<>>
        /\ fetched.resp.choices[1].tag = "string"
        /\ NumWords(fetched.resp.choices[1].val) \in 1..45)
       => outcome["generateLincolnResponse"].kind = "returned"

\* the first variant answered 200 with a reply of 45 words, its instruction
\* stating 10
C26_Witness ==
    /\ variant = 1
    /\ pc = "done"
    /\ Len(responses) = 1
    /\ responses[1].status = 200
    /\ NumWords(responses[1].response) = 45
    /\ promptMaxWords(variant) = 10

\* ---------------------------------------------------------------------------
\* Every upstream call and every timer eventually returns: a step of the
\* handler that can be taken is eventually taken.
FairSpec == Spec /\ WF_vars(Next)

\* C27: every pipeline run terminates: the request eventually receives its
\* response.
C27_Terminates == <>(pc = "done" /\ Len(responses) = 1)

\* C27, the ceilings: a run that has not ended can take a step, the speech
\* loop is within its 3 attempts and the poll loop within its 60.
C27_OnlyCeilingsEndARun ==
    /\ pc # "done" => ENABLED Next
    /\ attempt <= maxRetries
    /\ attempts <= maxAttempts
    /\ calls["elevenlabs"] <= maxRetries
    /\ calls["didStatus"] <= maxAttempts

\* a run that ended on the poll ceiling
C27_Witness ==
    /\ pc = "done"
    /\ Len(responses) = 1
    /\ attempts = maxAttempts
    /\ calls["didStatus"] = maxAttempts

\* ---------------------------------------------------------------------------
\* C28: when the access secret is not configured no request is authorized:
\* every POST, with or without the header and whatever its value, is answered
\* 401 and no adapter runs.
C28_UnsetSecretNeverAuthorizes ==
    (env.ACCESS_PASSWORD \in {Undefined, ""} /\ req.method = "POST")
    => /\ stages = <<>>
       /\ NoOutboundCall
       /\ pc \in {"received", "done"}
       /\ pc = "done"
          => responses = <<JsonError(401, "Unauthorized - Invalid password")>>

\* secret unset and header absent: both undefined, and still 401
C28_Witness ==
    /\ env.ACCESS_PASSWORD = Undefined
    /\ req.method = "POST"
    /\ req.password = Undefined
    /\ req.hasBody
    /\ req.audio = "QUJD"
    /\ pc = "done"
    /\ Sent(401)

\* ---------------------------------------------------------------------------
\* C29: the handler sends exactly one response, with a status in
\* {200, 400, 401, 405, 500}: never two, and a run that has ended has sent
\* one.
C29_ExactlyOneResponse ==
    /\ Len(responses) <= 1
    /\ pc = "done" <=> Len(responses) = 1
    /\ \A i \in 1..Len(responses) :
          responses[i].status \in {200, 400, 401, 405, 500}

\* the run that ended in the handler's catch block sent its one response
C29_Witness ==
    /\ pc = "done"
    /\ Len(responses) = 1
    /\ responses[1].status = 500
    /\ calls["whisper"] = 1

\* ---------------------------------------------------------------------------
\* C30: in the browser client at most one /api/ask request is in flight at
\* any time, under any interleaving of clicks, timers, stop events and fetch
\* completions, and isProcessing is true exactly while a request is in
\* flight.
C30_OneRequestInFlight ==
    /\ inflight <= 1
    /\ ui.isProcessing <=> inflight > 0

\* ---------------------------------------------------------------------------
\* C31: in the browser client results and errors are never shown together:
\* in every reachable state, if error is non-null then videoUrl,
\* transcription and response are all null, under any interleaving of clicks,
\* recorder stop events and fetch completions.
C31_ErrorExcludesResults ==
    ui.error # Null
    => /\ ui.videoUrl = Null
       /\ ui.transcription = Null
       /\ ui.response = Null

====
